---- MODULE Spec2Model ----
(***************************************************************************)
(* Model of themeix/placeholder-generator (src/app.py).                    *)
(*                                                                         *)
(* Strings are sequences of one-character strings, so that the regular     *)
(* expressions, str.replace, str.rsplit, str.rstrip and the f-string       *)
(* formatting of the source are computed character by character.          *)
(***************************************************************************)
EXTENDS Integers, Sequences, FiniteSets, TLC

VARIABLES
    pc,                 \* position of the modelled call: "input" or "done"
    json_content,       \* extract_image_urls: the text argument
    embedded,           \* how json_content was written: the URL it embeds and its encoding
    clean_urls,         \* extract_image_urls: the returned set
    original_filename,  \* generate_placeholder_filename: arguments
    pattern,
    prefix,
    index,
    filename,           \* generate_placeholder_filename: the returned string
    url,                \* get_filename_from_url, get_image_format_from_image: the url argument
    url_parts,          \* the components url was written from
    url_hash,           \* hash(url) in the running interpreter
    calls,              \* number of calls of get_filename_from_url(url) made so far
    url_filename,       \* get_filename_from_url: the value returned by the last call
    previous_filename,  \* get_filename_from_url: the value returned by the call before
    img_format,         \* get_image_format_from_image: img.format ("" when PIL reports none)
    image_format,       \* get_image_format_from_image: the returned format
    session_state,      \* main: st.session_state (dicts are the sequences of their keys,
                        \*       in insertion order)
    set_order,          \* main: the order in which the set session_state.image_urls iterates
    uploaded,           \* main: the file held by st.file_uploader
    widgets,            \* main: the values of the naming widgets of the Settings tab
    phase,              \* main: position of the current run, "idle" between two runs
    pressed,            \* main: the button whose click started the current run
    idx,                \* main: number of URLs the running load loop has visited
    rendered,           \* main: the buttons the current run has rendered
    zip_names,          \* main: (url, name) of the entries of the last placeholder ZIP
    json_names,         \* main: (url, name) of the replacements of the last updated JSON
    example_result,     \* main: the example shown by the Settings tab in the last run
    run_start,          \* main: how the current run began: whether it read the uploaded
                        \*       file again, whether 'Clear All' began it, and the
                        \*       placeholders_data it began with
    grid,               \* individual downloads: the displayed URL list and the view
    row_i,              \* individual downloads: the loop variable i of the row loop
    download_buttons,   \* individual downloads: the placeholder download buttons rendered
    zip_images,         \* originals ZIP: the keys of images_data, in insertion order
    zip_hash,           \* originals ZIP: hash(url) of every key
    zip_pos,            \* originals ZIP: number of keys the loop has visited
    files,              \* originals ZIP: the dict files, as (name, url) in insertion order
    zip_file            \* originals ZIP: the entry names create_zip_file has written

vars == <<pc, json_content, embedded, clean_urls,
          original_filename, pattern, prefix, index, filename,
          url, url_parts, url_hash, calls, url_filename, previous_filename,
          img_format, image_format,
          session_state, set_order, uploaded, widgets, phase, pressed, idx, rendered,
          zip_names, json_names, example_result, run_start,
          grid, row_i, download_buttons, zip_images, zip_hash, zip_pos, files, zip_file>>

extractVars  == <<json_content, embedded, clean_urls>>
namingVars   == <<original_filename, pattern, prefix, index, filename>>
urlVars      == <<url, url_parts>>
filenameVars == <<url_hash, calls, url_filename, previous_filename>>
formatVars   == <<img_format, image_format>>
sessionVars  == <<session_state, set_order, uploaded, widgets, phase, pressed, idx,
                  rendered, zip_names, json_names, example_result, run_start>>
gridVars     == <<grid, row_i, download_buttons>>
zipVars      == <<zip_images, zip_hash, zip_pos, files, zip_file>>

\* Values of the variables of a function that the checked specification does not call.
NoParts == [kind |-> "none"]

NamingIdle   == /\ original_filename = <<>> /\ pattern = "" /\ prefix = <<>>
                /\ index = 1 /\ filename = <<>>
UrlIdle      == url = <<>> /\ url_parts = NoParts
FilenameIdle == /\ url_hash = 0 /\ calls = 0
                /\ url_filename = <<>> /\ previous_filename = <<>>
FormatIdle   == img_format = "" /\ image_format = ""
SessionIdle  == /\ session_state = [kind |-> "none"] /\ set_order = <<>>
                /\ uploaded = [kind |-> "none"] /\ widgets = [kind |-> "none"]
                /\ phase = "none" /\ pressed = "none" /\ idx = 0 /\ rendered = {}
                /\ zip_names = <<>> /\ json_names = <<>>
                /\ example_result = <<>> /\ run_start = [kind |-> "none"]
GridIdle     == grid = [kind |-> "none"] /\ row_i = 0 /\ download_buttons = {}
ZipIdle      == zip_images = <<>> /\ zip_hash = <<>> /\ zip_pos = 0 /\ files = <<>>
                /\ zip_file = <<>>

(***************************************************************************)
(* Bounds of the model.                                                    *)
(***************************************************************************)
MaxPathDepth   == 1     \* directories between host and file in an embedded URL
MaxUnderscores == 2     \* trailing underscores appended to a prefix
MaxIndex       == 1000  \* largest index passed to generate_placeholder_filename

(***************************************************************************)
(* Characters.                                                             *)
(***************************************************************************)
BS == "\\"
SL == "/"
DQ == "\""
NL == "\n"

UpperLetters == <<"A", "B", "C", "D", "E", "F", "G", "H", "I", "J", "K", "L", "M",
                  "N", "O", "P", "Q", "R", "S", "T", "U", "V", "W", "X", "Y", "Z">>
LowerLetters == <<"a", "b", "c", "d", "e", "f", "g", "h", "i", "j", "k", "l", "m",
                  "n", "o", "p", "q", "r", "s", "t", "u", "v", "w", "x", "y", "z">>

LowerOf == [c \in {UpperLetters[i] : i \in 1..26} |->
               LowerLetters[CHOOSE i \in 1..26 : UpperLetters[i] = c]]
UpperOf == [c \in {LowerLetters[i] : i \in 1..26} |->
               UpperLetters[CHOOSE i \in 1..26 : LowerLetters[i] = c]]

\* re.IGNORECASE compares letters by their lower-case form.
Lower(c) == IF c \in DOMAIN LowerOf THEN LowerOf[c] ELSE c

Upper(c) == IF c \in DOMAIN UpperOf THEN UpperOf[c] ELSE c

LowerStr(s) == [i \in 1..Len(s) |-> Lower(s[i])]
UpperStr(s) == [i \in 1..Len(s) |-> Upper(s[i])]

Max(S) == CHOOSE x \in S : \A y \in S : y <= x
Min(S) == CHOOSE x \in S : \A y \in S : x <= y

\* s occurs in t at position i (1-based), compared exactly.
OccursAt(t, i, s) ==
    /\ i >= 1
    /\ i + Len(s) - 1 <= Len(t)
    /\ \A j \in 1..Len(s) : t[i + j - 1] = s[j]

\* s occurs in t at position i under re.IGNORECASE.
OccursAtIgnoreCase(t, i, s) ==
    /\ i >= 1
    /\ i + Len(s) - 1 <= Len(t)
    /\ \A j \in 1..Len(s) :
          t[i + j - 1] = s[j] \/ Lower(t[i + j - 1]) = Lower(s[j])

Contains(t, s) == \E i \in 1..Len(t) : OccursAt(t, i, s)
EndsWith(t, s) == Len(s) <= Len(t) /\ OccursAt(t, Len(t) - Len(s) + 1, s)
StartsWith(t, s) == OccursAt(t, 1, s)

(***************************************************************************)
(* extract_image_urls (src/app.py:33-63).                                  *)
(***************************************************************************)

\* Variant: the alternation also lists an extension that is no image.
image_extensions_with_txt ==
    << <<"j", "p", "g">>, <<"j", "p", "e", "g">>, <<"p", "n", "g">>,
       <<"g", "i", "f">>, <<"b", "m", "p">>, <<"w", "e", "b", "p">>,
       <<"s", "v", "g">>, <<"t", "i", "f", "f">>, <<"t", "i", "f">>,
       <<"i", "c", "o">>, <<"a", "v", "i", "f">>, <<"h", "e", "i", "c">>,
       <<"h", "e", "i", "f">>, <<"t", "x", "t">> >>

\* The alternation jpg|jpeg|png|...|heif, in the order the patterns try it.
image_extensions ==
    << <<"j", "p", "g">>, <<"j", "p", "e", "g">>, <<"p", "n", "g">>,
       <<"g", "i", "f">>, <<"b", "m", "p">>, <<"w", "e", "b", "p">>,
       <<"s", "v", "g">>, <<"t", "i", "f", "f">>, <<"t", "i", "f">>,
       <<"i", "c", "o">>, <<"a", "v", "i", "f">>, <<"h", "e", "i", "c">>,
       <<"h", "e", "i", "f">> >>

\* The characters [^"'<>] of the escaped pattern excludes.
EscapedClass == {DQ, "'", "<", ">"}

\* The characters [^"'<>\s] of the direct pattern excludes.
DirectClass == {DQ, "'", "<", ">", " ", "\t", NL, "\r", "\f"}

\* The alternation tried at position i: the first alternative that matches
\* decides; the result is the position after it, 0 when none matches.
MatchExtension(t, i) ==
    LET hits == {k \in 1..Len(image_extensions) :
                    OccursAtIgnoreCase(t, i, image_extensions[k])}
    IN  IF hits = {} THEN 0 ELSE i + Len(image_extensions[Min(hits)])

\* https? at position s: the position after the scheme, 0 when it does not
\* match.  The optional s is taken when present; dropping it on backtracking
\* cannot help, because the next pattern character is ':'.
MatchScheme(t, s, ignoreCase) ==
    LET http == <<"h", "t", "t", "p">>
        hit  == IF ignoreCase THEN OccursAtIgnoreCase(t, s, http)
                ELSE OccursAt(t, s, http)
        p    == s + 4
        hasS == p <= Len(t) /\ (IF ignoreCase THEN Lower(t[p]) ELSE t[p]) = "s"
    IN  IF ~hit THEN 0 ELSE IF hasS THEN p + 1 ELSE p

\* Length of the longest run of characters outside the set excluded,
\* starting at position p.
RunLength(t, p, excluded) ==
    LET stops == {k \in 0..(Len(t) - p + 1) :
                     p + k > Len(t) \/ t[p + k] \in excluded}
    IN  IF p > Len(t) THEN 0 ELSE Min(stops)

\* scheme, separator, greedy class+ run, '.', alternation: the match that
\* starts at s, as [end |-> position after the match, ext |-> position of
\* the alternation], end = 0 when there is none.  The run is greedy, so the
\* longest run that lets the rest match is the one taken.
MatchUrlAt(t, s, sep, excluded) ==
    LET p2   == MatchScheme(t, s, TRUE)
        p3   == p2 + Len(sep)
        run  == RunLength(t, p3, excluded)
        good == {k \in 1..run :
                    /\ p3 + k <= Len(t)
                    /\ t[p3 + k] = "."
                    /\ MatchExtension(t, p3 + k + 1) # 0}
    IN  IF p2 = 0 \/ ~OccursAt(t, p2, sep) \/ good = {}
        THEN [end |-> 0, ext |-> 0]
        ELSE [end |-> MatchExtension(t, p3 + Max(good) + 1),
              ext |-> p3 + Max(good) + 1]

\* Variant: the pattern asks for two backslashes before each slash.
escaped_url_pattern_double(t, s) ==
    MatchUrlAt(t, s, <<":", BS, BS, SL, BS, BS, SL>>, EscapedClass)

\* escaped_url_pattern: https?:\\/\\/[^"'<>]+\.(?:jpg|...|heif)
escaped_url_pattern(t, s) ==
    MatchUrlAt(t, s, <<":", BS, SL, BS, SL>>, EscapedClass)

\* direct_url_pattern: https?://[^"'<>\s]+(?:\.(jpg|...|heif))
direct_url_pattern(t, s) ==
    MatchUrlAt(t, s, <<":", SL, SL>>, DirectClass)

\* re.findall over a pattern without a group: the matched substrings, left
\* to right, the scan resuming after each match.
RECURSIVE FindAllEscaped(_, _)
FindAllEscaped(t, pos) ==
    IF pos > Len(t) THEN <<>>
    ELSE LET m == escaped_url_pattern(t, pos)
         IN  IF m.end = 0 THEN FindAllEscaped(t, pos + 1)
             ELSE <<SubSeq(t, pos, m.end - 1)>> \o FindAllEscaped(t, m.end)

\* re.findall over a pattern with one capturing group returns the text of
\* the group, here the extension, for each match.
RECURSIVE FindAllDirect(_, _)
FindAllDirect(t, pos) ==
    IF pos > Len(t) THEN <<>>
    ELSE LET m == direct_url_pattern(t, pos)
         IN  IF m.end = 0 THEN FindAllDirect(t, pos + 1)
             ELSE <<SubSeq(t, m.ext, m.end - 1)>> \o FindAllDirect(t, m.end)

escaped_urls(t) == FindAllEscaped(t, 1)
direct_urls(t)  == FindAllDirect(t, 1)

\* Variant: url.replace('\\/', '/', 1), only the first backslash-slash.
ReplaceFirstEscapedSlash(u) ==
    LET hits == {i \in 1..(Len(u) - 1) : u[i] = BS /\ u[i + 1] = SL}
    IN  IF hits = {} THEN u
        ELSE SubSeq(u, 1, Min(hits) - 1) \o <<SL>> \o SubSeq(u, Min(hits) + 2, Len(u))

\* url.replace('\\/', '/'): every backslash-slash, scanned left to right,
\* becomes a slash.
RECURSIVE ReplaceEscapedSlash(_)
ReplaceEscapedSlash(u) ==
    IF Len(u) < 2 THEN u
    ELSE IF u[1] = BS /\ u[2] = SL
         THEN <<SL>> \o ReplaceEscapedSlash(SubSeq(u, 3, Len(u)))
         ELSE <<u[1]>> \o ReplaceEscapedSlash(Tail(u))

cleaned_escaped_urls(t) ==
    LET found == escaped_urls(t)
    IN  [i \in 1..Len(found) |-> ReplaceEscapedSlash(found[i])]

all_urls(t) == cleaned_escaped_urls(t) \o direct_urls(t)

\* re.sub(r'["\',;}\]]+$', '', url): the trailing run of these characters
\* is removed; $ also matches before a final newline.
StripTrailing(u) ==
    LET class == {DQ, "'", ",", ";", "}", "]"}
        n     == Len(u)
        e     == IF n > 0 /\ u[n] = NL THEN n - 1 ELSE n
        keep  == {i \in 0..e : \A j \in (i + 1)..e : u[j] \in class}
    IN  SubSeq(u, 1, Min(keep)) \o SubSeq(u, e + 1, n)

\* Variant: the validation run with re.IGNORECASE like the two searches.
IsValidUrlIgnoreCase(u) ==
    LET p2 == MatchScheme(u, 1, TRUE)
        p3 == p2 + 3
    IN  /\ p2 # 0
        /\ OccursAt(u, p2, <<":", SL, SL>>)
        /\ \E j \in (p3 + 1)..(Len(u) - 1) :
              /\ u[j] = "."
              /\ \A k \in p3..(j + 1) : k = j \/ u[k] # NL

\* re.match(r'https?://.+\..+', url): anchored at the start, case-sensitive,
\* '.' matching any character but a newline.
IsValidUrl(u) ==
    LET p2 == MatchScheme(u, 1, FALSE)
        p3 == p2 + 3
    IN  /\ p2 # 0
        /\ OccursAt(u, p2, <<":", SL, SL>>)
        /\ \E j \in (p3 + 1)..(Len(u) - 1) :
              /\ u[j] = "."
              /\ \A k \in p3..(j + 1) : k = j \/ u[k] # NL

extract_image_urls(t) ==
    LET found    == all_urls(t)
        stripped == {StripTrailing(found[i]) : i \in 1..Len(found)}
    IN  {u \in stripped : IsValidUrl(u)}

(***************************************************************************)
(* Input texts of extract_image_urls: one URL, written in the text with    *)
(* its slashes plain, JSON-escaped or escaped twice, inside a delimiter.   *)
(***************************************************************************)
Schemes == {<<"h", "t", "t", "p">>, <<"h", "t", "t", "p", "s">>,
            <<"H", "T", "T", "P", "S">>, <<"f", "t", "p">>}
Hosts   == {<<"x", ".", "c", "o", "m">>, <<"c", "d", "n", ".", "t", "e", "s", "t">>}

\* The thirteen extensions the extractor is specified to recognize.
ClaimedExtensions ==
    {<<"j", "p", "g">>,
     <<"j", "p", "e", "g">>,
     <<"p", "n", "g">>,
     <<"g", "i", "f">>,
     <<"b", "m", "p">>,
     <<"w", "e", "b", "p">>,
     <<"s", "v", "g">>,
     <<"t", "i", "f", "f">>,
     <<"t", "i", "f">>,
     <<"i", "c", "o">>,
     <<"a", "v", "i", "f">>,
     <<"h", "e", "i", "c">>,
     <<"h", "e", "i", "f">>}

Capitalize(s) == [i \in 1..Len(s) |-> IF i = 1 THEN Upper(s[i]) ELSE s[i]]

\* Extensions as written in a text: recognized ones in lower, upper and
\* mixed case, one that is not an image extension, and none.
WrittenExtensions ==
    ClaimedExtensions
        \cup {UpperStr(e) : e \in ClaimedExtensions}
        \cup {Capitalize(e) : e \in ClaimedExtensions}
        \cup {<<"t", "x", "t">>, <<>>}

SlashStyles == {"plain", "escaped", "double"}

Slash(style) ==
    CASE style = "plain"   -> <<SL>>
      [] style = "escaped" -> <<BS, SL>>
      [] style = "double"  -> <<BS, BS, SL>>

Wrappers == {"quoted", "json", "spaced", "bare"}

Before(wrap) ==
    CASE wrap = "quoted" -> <<DQ>>
      [] wrap = "json"   -> <<"{", DQ, "b", "g", DQ, ":", DQ>>
      [] wrap = "spaced" -> <<" ">>
      [] wrap = "bare"   -> <<>>

After(wrap) ==
    CASE wrap = "quoted" -> <<DQ>>
      [] wrap = "json"   -> <<DQ, ",", DQ, "o", "t", "h", "e", "r", DQ, ":", DQ,
                              "n", "o", " ", "u", "r", "l", " ", "h", "e", "r", "e", DQ, "}">>
      [] wrap = "spaced" -> <<" ">>
      [] wrap = "bare"   -> <<>>

RECURSIVE Dirs(_, _)
Dirs(depth, slash) ==
    IF depth = 0 THEN <<>> ELSE slash \o <<"i", "m", "g">> \o Dirs(depth - 1, slash)

\* scheme://host(/img)*/a.ext with the two slashes after the scheme written
\* in style s1 and the slashes of the path in style s2.
WriteUrl(scheme, host, depth, ext, s1, s2) ==
    scheme \o <<":">> \o Slash(s1) \o Slash(s1) \o host
        \o Dirs(depth, Slash(s2)) \o Slash(s2) \o <<"a">>
        \o (IF ext = <<>> THEN <<>> ELSE <<".">> \o ext)

Embeddings ==
    [scheme : Schemes, host : Hosts, depth : 0..MaxPathDepth,
     ext : WrittenExtensions, s1 : SlashStyles, s2 : SlashStyles, wrap : Wrappers]

\* The URL an embedding stands for.
UrlOf(e) == WriteUrl(e.scheme, e.host, e.depth, e.ext, "plain", "plain")

\* The text an embedding is written as.
TextOf(e) ==
    Before(e.wrap) \o WriteUrl(e.scheme, e.host, e.depth, e.ext, e.s1, e.s2)
        \o After(e.wrap)

NoEmbedding == [scheme |-> <<>>, host |-> <<>>, depth |-> 0, ext |-> <<>>,
                s1 |-> "plain", s2 |-> "plain", wrap |-> "bare"]

ExtractIdle == json_content = <<>> /\ embedded = NoEmbedding /\ clean_urls = {}

InitExtract ==
    /\ pc = "input"
    /\ embedded \in Embeddings
    /\ json_content = TextOf(embedded)
    /\ clean_urls = {}
    /\ NamingIdle /\ UrlIdle /\ FilenameIdle /\ FormatIdle /\ SessionIdle /\ GridIdle /\ ZipIdle

\* urls = extract_image_urls(json_content)  (src/app.py:362)
ExtractImageUrls ==
    /\ pc = "input"
    /\ json_content # <<>>
    /\ clean_urls' = extract_image_urls(json_content)
    /\ pc' = "done"
    /\ UNCHANGED <<json_content, embedded, namingVars, urlVars, filenameVars, formatVars,
                 sessionVars, gridVars, zipVars>>

NextExtract == ExtractImageUrls

SpecExtract == InitExtract /\ [][NextExtract]_vars

(***************************************************************************)
(* generate_placeholder_filename (src/app.py:146-181).                     *)
(***************************************************************************)
PNG == <<"p", "n", "g">>

\* Variant: original_filename.split('.', 1), cut at the first '.'.
SplitAtFirstDot(f) ==
    LET dots == {i \in 1..Len(f) : f[i] = "."}
    IN  IF dots # {}
        THEN [name |-> SubSeq(f, 1, Min(dots) - 1),
              ext  |-> SubSeq(f, Min(dots) + 1, Len(f))]
        ELSE [name |-> f, ext |-> PNG]

\* original_filename.rsplit('.', 1) when '.' is in it, else the whole
\* string with the extension 'png'.
SplitExtension(f) ==
    LET dots == {i \in 1..Len(f) : f[i] = "."}
    IN  IF dots # {}
        THEN [name |-> SubSeq(f, 1, Max(dots) - 1),
              ext  |-> SubSeq(f, Max(dots) + 1, Len(f))]
        ELSE [name |-> f, ext |-> PNG]

\* prefix.rstrip('_')
RECURSIVE RStripUnderscore(_)
RStripUnderscore(p) ==
    IF Len(p) > 0 /\ p[Len(p)] = "_"
    THEN RStripUnderscore(SubSeq(p, 1, Len(p) - 1))
    ELSE p

\* Variant: the prefix used as given, trailing underscores kept.
clean_prefix_unstripped(p) == p

\* prefix.rstrip('_') if prefix else ""
clean_prefix(p) == IF p # <<>> THEN RStripUnderscore(p) ELSE <<>>

Digits == <<"0", "1", "2", "3", "4", "5", "6", "7", "8", "9">>

\* str(n) for n >= 0
RECURSIVE Decimal(_)
Decimal(n) ==
    IF n < 10 THEN <<Digits[n + 1]>>
    ELSE Decimal(n \div 10) \o <<Digits[(n % 10) + 1]>>

\* Variant: f"{index:02d}", padded to a width of two.
index_str_width2(n) ==
    LET d == Decimal(n)
    IN  [i \in 1..(IF Len(d) < 2 THEN 2 - Len(d) ELSE 0) |-> "0"] \o d

\* f"{index:03d}" for index >= 0: decimal, padded with zeros on the left to
\* a width of three, longer numbers left as they are.
index_str(n) ==
    LET d == Decimal(n)
    IN  [i \in 1..(IF Len(d) < 3 THEN 3 - Len(d) ELSE 0) |-> "0"] \o d

\* Variants of generate_placeholder_filename: "suffix_ext" keeps the
\* original extension under 'original_filename_suffix', "fallback_prefix"
\* puts the prefix into the name of the default fallback.
GenerateVariant(f, pat, p, i, variant) ==
    LET name == SplitExtension(f).name
        ext  == SplitExtension(f).ext
        cp   == clean_prefix(p)
        placeholder == <<"p", "l", "a", "c", "e", "h", "o", "l", "d", "e", "r">>
    IN  CASE pat \in {"original_filename", "prefix_original_filename"} ->
                IF cp # <<>> THEN cp \o <<"_">> \o f
                ELSE name \o <<".">> \o PNG
          [] pat = "original_filename_suffix" ->
                name \o <<"_">> \o (IF cp # <<>> THEN cp ELSE placeholder)
                    \o <<".">> \o (IF variant = "suffix_ext" THEN ext ELSE PNG)
          [] pat = "prefix_index_original_filename" ->
                IF cp # <<>> THEN cp \o <<"_">> \o index_str(i) \o <<"_">> \o f
                ELSE index_str(i) \o <<"_">> \o name \o <<".">> \o PNG
          [] OTHER ->
                (IF variant = "fallback_prefix" /\ cp # <<>> THEN cp ELSE placeholder)
                    \o <<"_">> \o name \o <<".">> \o PNG

generate_placeholder_filename_suffix_ext(f, pat, p, i) ==
    GenerateVariant(f, pat, p, i, "suffix_ext")

generate_placeholder_filename_fallback_prefix(f, pat, p, i) ==
    GenerateVariant(f, pat, p, i, "fallback_prefix")

generate_placeholder_filename(f, pat, p, i) ==
    LET name == SplitExtension(f).name
        cp   == clean_prefix(p)
    IN  CASE pat = "original_filename" ->
                IF cp # <<>> THEN cp \o <<"_">> \o f
                ELSE name \o <<".">> \o PNG
          [] pat = "prefix_original_filename" ->
                IF cp # <<>> THEN cp \o <<"_">> \o f
                ELSE name \o <<".">> \o PNG
          [] pat = "original_filename_suffix" ->
                name \o <<"_">>
                    \o (IF cp # <<>> THEN cp
                        ELSE <<"p", "l", "a", "c", "e", "h", "o", "l", "d", "e", "r">>)
                    \o <<".">> \o PNG
          [] pat = "prefix_index_original_filename" ->
                IF cp # <<>> THEN cp \o <<"_">> \o index_str(i) \o <<"_">> \o f
                ELSE index_str(i) \o <<"_">> \o name \o <<".">> \o PNG
          [] OTHER ->
                <<"p", "l", "a", "c", "e", "h", "o", "l", "d", "e", "r", "_">>
                    \o name \o <<".">> \o PNG

(***************************************************************************)
(* Inputs of generate_placeholder_filename.                                *)
(***************************************************************************)
NamingPatterns == {"original_filename", "prefix_original_filename",
                   "original_filename_suffix", "prefix_index_original_filename"}

\* The four policies and a value outside them.
PatternValues == NamingPatterns \cup {"unknown_pattern"}

OriginalFilenames ==
    {<<"p", "h", "o", "t", "o", ".", "j", "p", "g">>,
     <<"p", "h", "o", "t", "o">>,
     <<"a", ".", "b", ".", "p", "n", "g">>,
     <<"6", "9", "5", "5", "5", "-", "a", "u", "t", "h", "o", "r", ".", "w", "e", "b", "p">>}

Underscores(k) == [i \in 1..k |-> "_"]

\* A prefix is empty or 'ph', followed by up to MaxUnderscores underscores.
Prefixes ==
    {base \o Underscores(k) : base \in {<<>>, <<"p", "h">>}, k \in 0..MaxUnderscores}

Indexes == 1..MaxIndex

InitNaming ==
    /\ pc = "input"
    /\ original_filename \in OriginalFilenames
    /\ pattern \in PatternValues
    /\ prefix \in Prefixes
    /\ index \in Indexes
    /\ filename = <<>>
    /\ ExtractIdle /\ UrlIdle /\ FilenameIdle /\ FormatIdle /\ SessionIdle /\ GridIdle /\ ZipIdle

GeneratePlaceholderFilename ==
    /\ pc = "input"
    /\ original_filename # <<>>
    /\ filename' = generate_placeholder_filename(original_filename, pattern, prefix, index)
    /\ pc' = "done"
    /\ UNCHANGED <<original_filename, pattern, prefix, index, extractVars,
                 urlVars, filenameVars, formatVars, sessionVars, gridVars, zipVars>>

NextNaming == GeneratePlaceholderFilename

SpecNaming == InitNaming /\ [][NextNaming]_vars

(***************************************************************************)
(* get_filename_from_url (src/app.py:134-143).                             *)
(***************************************************************************)
MaxCalls     == 2   \* calls of get_filename_from_url made with one URL
MaxHashSteps == 3   \* hash(url) ranges over -MaxHashSteps..MaxHashSteps times HashStep
HashStep     == 4999
HashModulus  == 10000

\* str.find(c, start): the first position >= start holding c, 0 when there is none.
Find(t, c, start) ==
    LET found == {i \in start..Len(t) : t[i] = c}
    IN  IF found = {} THEN 0 ELSE Min(found)

\* str.rfind(c): the last position holding c, 0 when there is none.
RFind(t, c) ==
    LET found == {i \in 1..Len(t) : t[i] = c}
    IN  IF found = {} THEN 0 ELSE Max(found)

HasChar(t, c) == \E i \in 1..Len(t) : t[i] = c

\* urllib.parse.scheme_chars
AsciiLetters == {UpperLetters[i] : i \in 1..26} \cup {LowerLetters[i] : i \in 1..26}

scheme_chars == AsciiLetters \cup {Digits[i] : i \in 1..10} \cup {"+", "-", "."}

\* urllib.parse.uses_params
uses_params ==
    {<<>>,
     <<"f", "t", "p">>,
     <<"h", "d", "l">>,
     <<"p", "r", "o", "s", "p", "e", "r", "o">>,
     <<"h", "t", "t", "p">>,
     <<"i", "m", "a", "p">>,
     <<"h", "t", "t", "p", "s">>,
     <<"s", "h", "t", "t", "p">>,
     <<"r", "t", "s", "p">>,
     <<"r", "t", "s", "p", "s">>,
     <<"r", "t", "s", "p", "u">>,
     <<"s", "i", "p">>,
     <<"s", "i", "p", "s">>,
     <<"m", "m", "s">>,
     <<"s", "f", "t", "p">>,
     <<"t", "e", "l">>}

\* urllib.parse._splitnetloc(url, 2): the text after '//' up to the first of '/', '?', '#'.
NetlocEnd(u) ==
    LET stops == {Find(u, c, 3) : c \in {"/", "?", "#"}} \ {0}
    IN  IF stops = {} THEN Len(u) + 1 ELSE Min(stops)

\* The position of the ':' that ends the scheme of u, 0 when u has no scheme:
\* i = url.find(':'); i > 0, a letter first, only scheme_chars before the ':'.
SchemeEnd(u) ==
    LET i == Find(u, ":", 1)
    IN  IF /\ i > 1
           /\ u[1] \in AsciiLetters
           /\ \A k \in 1..(i - 1) : u[k] \in scheme_chars
        THEN i ELSE 0

\* if '?' in url: url, query = url.split('?', 1); the netloc is rejected with
\* ValueError("Invalid IPv6 URL") when only one of '[' and ']' occurs in it
\* (ok = FALSE).
SplitQuery(scheme, netloc, u, fragment) ==
    LET q == Find(u, "?", 1)
    IN  [ok       |-> ~(HasChar(netloc, "[") /\ ~HasChar(netloc, "]"))
                      /\ ~(HasChar(netloc, "]") /\ ~HasChar(netloc, "[")),
         scheme   |-> scheme,
         netloc   |-> netloc,
         path     |-> IF q > 0 THEN SubSeq(u, 1, q - 1) ELSE u,
         query    |-> IF q > 0 THEN SubSeq(u, q + 1, Len(u)) ELSE <<>>,
         fragment |-> fragment]

\* if '#' in url: url, fragment = url.split('#', 1)
SplitFragment(scheme, netloc, u) ==
    LET h == Find(u, "#", 1)
    IN  SplitQuery(scheme, netloc,
                   IF h > 0 THEN SubSeq(u, 1, h - 1) ELSE u,
                   IF h > 0 THEN SubSeq(u, h + 1, Len(u)) ELSE <<>>)

\* if url[:2] == '//': netloc, url = _splitnetloc(url, 2)
SplitNetloc(scheme, u) ==
    IF Len(u) >= 2 /\ u[1] = "/" /\ u[2] = "/"
    THEN SplitFragment(scheme, SubSeq(u, 3, NetlocEnd(u) - 1),
                       SubSeq(u, NetlocEnd(u), Len(u)))
    ELSE SplitFragment(scheme, <<>>, u)

\* scheme, url = url[:i].lower(), url[i+1:], e being SchemeEnd(u)
SplitScheme(u, e) ==
    IF e > 0
    THEN SplitNetloc(LowerStr(SubSeq(u, 1, e - 1)), SubSeq(u, e + 1, Len(u)))
    ELSE SplitNetloc(<<>>, u)

\* urllib.parse.urlsplit, for a url without leading blanks and control characters
\* and without a netloc that has both '[' and ']'.
urlsplit(u) == SplitScheme(u, SchemeEnd(u))

\* urllib.parse._splitparams: the ';' parameters of the last path segment are cut off.
SplitParams(path) ==
    LET i == IF HasChar(path, "/") THEN Find(path, ";", RFind(path, "/"))
             ELSE Find(path, ";", 1)
    IN  IF i = 0 THEN path ELSE SubSeq(path, 1, i - 1)

\* if scheme in uses_params and ';' in url: url, params = _splitparams(url)
CutParams(r) ==
    IF r.ok /\ r.scheme \in uses_params /\ HasChar(r.path, ";")
    THEN [r EXCEPT !.path = SplitParams(r.path)]
    ELSE r

\* urlparse(url)  (src/app.py:137)
urlparse(u) == CutParams(urlsplit(u))

\* s.split('/')[-1]
LastSegment(s) == SubSeq(s, RFind(s, "/") + 1, Len(s))

\* f"{n}" for an integer n
IntStr(n) == IF n < 0 THEN <<"-">> \o Decimal(-n) ELSE Decimal(n)

\* Variant: the remainder truncated toward zero, which is negative for a negative hash.
HashMod_truncated(h) == IF h < 0 THEN -((-h) % HashModulus) ELSE h % HashModulus

\* hash(url) % 10000 (Python's %: the result has the sign of the divisor)
HashMod(h) == h % HashModulus

\* f"image_{hash(url) % 10000}.jpg"  (src/app.py:140, 143)
FallbackFilename(h) ==
    <<"i", "m", "a", "g", "e", "_">> \o IntStr(HashMod(h)) \o <<".", "j", "p", "g">>

\* if not filename or '.' not in filename: return the fallback; return filename
\* (src/app.py:139-141)
NameOrFallback(name, h) ==
    IF name = <<>> \/ ~HasChar(name, ".") THEN FallbackFilename(h) ELSE name

\* The body of the try block once urlparse has returned or raised
\* (src/app.py:137-143).
FilenameOf(parsed, h) ==
    IF ~parsed.ok THEN FallbackFilename(h)
    ELSE NameOrFallback(LastSegment(parsed.path), h)

\* Variant: the last '/'-separated piece of the whole URL, without urlparse.
get_filename_from_url_whole_url(u, h) == NameOrFallback(LastSegment(u), h)

\* get_filename_from_url(url), h being hash(url)  (src/app.py:134-143)
get_filename_from_url(u, h) == FilenameOf(urlparse(u), h)

(***************************************************************************)
(* Inputs of get_filename_from_url: scheme://host, an optional path of     *)
(* directories and a final segment, then ';' parameters, a query and a     *)
(* fragment.                                                               *)
(***************************************************************************)
UrlSchemes == {<<"h", "t", "t", "p">>, <<"h", "t", "t", "p", "s">>}

\* '[x.com' is a netloc on which urlparse raises ValueError.
UrlHosts == {<<"x", ".", "c", "o", "m">>, <<"[", "x", ".", "c", "o", "m">>}

DirNames == {<<"i", "m", "g">>, <<"d", ".", "i", "r">>}

Segments == {<<>>, <<"b", ".", "p", "n", "g">>, <<"b">>, <<"a", ".", "b", ".", "p", "n", "g">>, <<".", "p", "n", "g">>}

ParamTexts    == {<<>>, <<";", "v", "=", "1">>}
QueryTexts    == {<<>>, <<"?", "x", "=", "1">>, <<"?", "u", "=", "a", "/", "b", ".", "c">>}
FragmentTexts == {<<>>, <<"#", "f">>, <<"#", "f", "/", "g", ".", "h">>}

RECURSIVE Repeat(_, _)
Repeat(s, k) == IF k = 0 THEN <<>> ELSE s \o Repeat(s, k - 1)

UrlParts ==
    {[kind |-> "url", scheme |-> sc, host |-> ho, has_path |-> hp, dirs |-> dr,
      segment |-> sg, params |-> pa, query |-> qu, fragment |-> fr] :
        sc \in UrlSchemes, ho \in UrlHosts, hp \in BOOLEAN,
        dr \in {Repeat(<<"/">> \o dn, k) : dn \in DirNames, k \in 0..MaxPathDepth},
        sg \in Segments, pa \in ParamTexts, qu \in QueryTexts, fr \in FragmentTexts}

\* A URL without a path has no directories and no final segment.
WellFormedParts(p) == p.has_path \/ (p.dirs = <<>> /\ p.segment = <<>>)

WriteParts(p) ==
    p.scheme \o <<":", "/", "/">> \o p.host
        \o (IF p.has_path THEN p.dirs \o <<"/">> \o p.segment ELSE <<>>)
        \o p.params \o p.query \o p.fragment

HashValues == {k * HashStep : k \in (-MaxHashSteps)..MaxHashSteps}

InitFilename ==
    /\ pc = "input"
    /\ url_parts \in {p \in UrlParts : WellFormedParts(p)}
    /\ url = WriteParts(url_parts)
    /\ url_hash \in HashValues
    /\ calls = 0
    /\ url_filename = <<>>
    /\ previous_filename = <<>>
    /\ ExtractIdle /\ NamingIdle /\ FormatIdle /\ SessionIdle /\ GridIdle /\ ZipIdle

\* One call get_filename_from_url(url); hash(url) is the same in every call of a run.
GetFilenameFromUrl ==
    /\ calls < MaxCalls
    /\ url # <<>>
    /\ url_filename' = get_filename_from_url(url, url_hash)
    /\ previous_filename' = url_filename
    /\ calls' = calls + 1
    /\ pc' = "done"
    /\ UNCHANGED <<urlVars, url_hash, extractVars, namingVars, formatVars,
                 sessionVars, gridVars, zipVars>>

NextFilename == GetFilenameFromUrl

SpecFilename == InitFilename /\ [][NextFilename]_vars

(***************************************************************************)
(* get_image_format_from_image (src/app.py:220-234).                       *)
(***************************************************************************)
\* get_image_format_from_image(img, url), f being img.format ("" when PIL
\* reports no format, which is falsy like None).
get_image_format_from_image(f, u) ==
    LET url_lower == LowerStr(u)
    IN  IF f # "" THEN f
        ELSE IF Contains(url_lower, <<".", "p", "n", "g">>) THEN "PNG"
        ELSE IF Contains(url_lower, <<".", "w", "e", "b", "p">>) THEN "WEBP"
        ELSE IF Contains(url_lower, <<".", "g", "i", "f">>) THEN "GIF"
        ELSE "JPEG"

(***************************************************************************)
(* Inputs of get_image_format_from_image: scheme://x.com, an optional      *)
(* directory, a file stem and a trailing extension in lower or upper case. *)
(***************************************************************************)
ProbedFormats == {"", "PNG", "JPEG", "GIF"}

FormatDirs == {<<>>, <<"/", "i", "m", "g">>, <<"/", "d", "i", "r", ".", "p", "n", "g">>}

Stems == {<<"a">>, <<"a", ".", "p", "n", "g">>, <<"a", ".", "g", "i", "f">>}

TrailingExtensions ==
    {<<>>,
     <<".", "p", "n", "g">>,
     <<".", "g", "i", "f">>,
     <<".", "b", "m", "p">>,
     <<".", "w", "e", "b", "p">>,
     <<".", "t", "i", "f", "f">>,
     <<".", "t", "i", "f">>,
     <<".", "s", "v", "g">>,
     <<".", "j", "p", "g">>,
     <<".", "j", "p", "e", "g">>,
     <<".", "x", "y", "z">>}

FormatUrlParts ==
    {[kind |-> "format_url", scheme |-> sc, dir |-> dr, stem |-> st, ext |-> ex,
      upper |-> up] :
        sc \in UrlSchemes, dr \in FormatDirs, st \in Stems,
        ex \in TrailingExtensions, up \in BOOLEAN}

WriteFormatUrl(p) ==
    p.scheme \o <<":", "/", "/", "x", ".", "c", "o", "m">> \o p.dir \o <<"/">> \o p.stem
        \o (IF p.upper THEN UpperStr(p.ext) ELSE p.ext)

InitFormat ==
    /\ pc = "input"
    /\ url_parts \in FormatUrlParts
    /\ url = WriteFormatUrl(url_parts)
    /\ img_format \in ProbedFormats
    /\ image_format = ""
    /\ ExtractIdle /\ NamingIdle /\ FilenameIdle /\ SessionIdle /\ GridIdle /\ ZipIdle

GetImageFormat ==
    /\ pc = "input"
    /\ url # <<>>
    /\ image_format' = get_image_format_from_image(img_format, url)
    /\ pc' = "done"
    /\ UNCHANGED <<urlVars, img_format, extractVars, namingVars, filenameVars,
                 sessionVars, gridVars, zipVars>>

NextFormat == GetImageFormat

SpecFormat == InitFormat /\ [][NextFormat]_vars

(***************************************************************************)
(* main (src/app.py:295-812): the session of the Streamlit page.  Every    *)
(* interaction of the user starts one run of main() from its first line;   *)
(* st.session_state is what a run inherits from the runs before it.        *)
(***************************************************************************)
MaxUrls == 2    \* URLs that uploaded files can contain

\* URL k of the session: 'https://h<k>.com/a.png' for odd k, 'https://h<k>.com/b.jpg'
\* for even k.  get_filename_from_url never takes its fallback for them.
Url(k) ==
    <<"h", "t", "t", "p", "s", ":", "/", "/", "h">> \o Decimal(k) \o <<".", "c", "o", "m", "/">>
        \o (IF k % 2 = 1 THEN <<"a", ".", "p", "n", "g">> ELSE <<"b", ".", "j", "p", "g">>)

Urls == {Url(k) : k \in 1..MaxUrls}

Range(s) == {s[i] : i \in 1..Len(s)}

\* list(a_set): the elements in the order in which the set iterates.
Orders(S) == {o \in [1..Cardinality(S) -> S] : Range(o) = S}

\* a_dict[k] = value, the dict being the sequence of its keys
DictSet(dict, k) == IF k \in Range(dict) THEN dict ELSE Append(dict, k)

\* Buttons of the page other than 'Clear All & Start Over'.
Buttons == {"generate", "zip_placeholders", "update_json"}

\* Values of the 'Custom Prefix' text input: its default, a text without a
\* trailing underscore and the empty text.
SettingsPrefixes ==
    {<<"p", "l", "a", "c", "e", "h", "o", "l", "d", "e", "r", "_">>, <<"p", "h">>, <<>>}

WidgetValues == [naming_pattern : NamingPatterns, custom_prefix : SettingsPrefixes]

\* index=0 of the selectbox and value="placeholder_"  (src/app.py:718-733)
DefaultWidgets ==
    [naming_pattern |-> "original_filename", custom_prefix |-> <<"p", "l", "a", "c", "e", "h", "o", "l", "d", "e", "r", "_">>]

\* example_filename = "69555-author.webp"  (src/app.py:737)
example_filename ==
    <<"6", "9", "5", "5", "5", "-", "a", "u", "t", "h", "o", "r", ".", "w", "e", "b", "p">>

\* The example_result of the 'Preview' of the Settings tab for the widget values
\* np and cp  (src/app.py:738-751)
ExampleResult(np, cp) ==
    LET name == SplitExtension(example_filename).name
        ext  == SplitExtension(example_filename).ext
    IN  CASE np = "original_filename" ->
                IF cp # <<>> THEN cp \o example_filename ELSE example_filename
          [] np = "prefix_original_filename" ->
                IF cp # <<>> THEN cp \o example_filename ELSE example_filename
          [] np = "original_filename_suffix" ->
                name \o <<"_">>
                    \o (IF cp # <<>> THEN RStripUnderscore(cp)
                        ELSE <<"p", "l", "a", "c", "e", "h", "o", "l", "d", "e", "r">>)
                    \o <<".">> \o ext
          [] np = "prefix_index_original_filename" ->
                IF cp # <<>> THEN cp \o <<"0", "0", "1", "_">> \o example_filename
                ELSE <<"0", "0", "1", "_">> \o example_filename

NoFile == [present |-> FALSE, urls |-> {}]

\* Outside a run nothing is remembered about how a run began.
NoRun == [kind |-> "none"]

\* The uploader holds a file in which extract_image_urls finds the URLs U.
File(U) == [present |-> TRUE, urls |-> U]

\* The state after the first run of main(), nothing uploaded:
\* src/app.py:304-313 and the settings stored at src/app.py:762-768.
InitSession ==
    /\ session_state = [image_urls |-> {}, images_data |-> <<>>,
                        placeholders_data |-> <<>>, failed_downloads |-> <<>>,
                        naming_pattern |-> DefaultWidgets.naming_pattern,
                        custom_prefix |-> DefaultWidgets.custom_prefix]
    /\ set_order = <<>>
    /\ uploaded = NoFile
    /\ widgets = DefaultWidgets
    /\ phase = "idle"
    /\ pressed = "none"
    /\ idx = 0
    /\ rendered = {}
    /\ zip_names = <<>>
    /\ json_names = <<>>
    /\ example_result = ExampleResult(DefaultWidgets.naming_pattern,
                                      DefaultWidgets.custom_prefix)
    /\ run_start = NoRun
    /\ pc = "input"
    /\ ExtractIdle /\ NamingIdle /\ UrlIdle /\ FilenameIdle /\ FormatIdle /\ GridIdle /\ ZipIdle

otherVars == <<pc, extractVars, namingVars, urlVars, filenameVars, formatVars, gridVars,
               zipVars>>

\* for key in [...]: st.session_state.pop(key, None), then the initialisation of
\* the run that st.rerun() starts  (src/app.py:319-321, 304-313)
Cleared(s) ==
    [s EXCEPT !.image_urls = {}, !.images_data = <<>>,
              !.placeholders_data = <<>>, !.failed_downloads = <<>>]

\* The start of a run up to the load loop of the Upload tab (src/app.py:304-381):
\* s0 is the session the run starts with, up the file in the uploader, read
\* whether uploaded_file.read() yields its text in this run, btn the clicked
\* button and w the values of the naming widgets; by names the interaction
\* that began the run.  The names of the last ZIP and of the last updated JSON are
\* forgotten as soon as the data they were computed from changes.  run_start
\* keeps, to the end of the run, how it began and the placeholders_data the
\* session held before it.
BeginRun(s0, up, read, btn, w, by) ==
    /\ run_start' = [kind |-> "run", by |-> by,
                     read |-> (up.present /\ read),
                     placeholders_data |-> session_state.placeholders_data]
    /\ uploaded' = up
    /\ pressed' = btn
    /\ widgets' = w
    /\ idx' = 0
    /\ rendered' = {}
    /\ IF up.present /\ read
       THEN IF up.urls # {}
            THEN /\ session_state' = [s0 EXCEPT !.image_urls = up.urls,
                                                !.images_data = <<>>,
                                                !.placeholders_data = <<>>,
                                                !.failed_downloads = <<>>]
                 /\ set_order' \in Orders(up.urls)
                 /\ phase' = "upload_loop"
            ELSE /\ session_state' = [s0 EXCEPT !.image_urls = {}, !.images_data = <<>>]
                 /\ set_order' = <<>>
                 /\ phase' = "tab2"
       ELSE /\ session_state' = s0
            /\ set_order' = (IF s0.image_urls = {} THEN <<>> ELSE set_order)
            /\ phase' = "tab2"
    /\ LET same == session_state' = session_state /\ set_order' = set_order /\ w = widgets
       IN  /\ zip_names' = (IF same THEN zip_names ELSE <<>>)
           /\ json_names' = (IF same THEN json_names ELSE <<>>)
    /\ UNCHANGED <<example_result, otherVars>>

\* Whether uploaded_file.read() yields the text of the file again in a later run
\* depends on the Streamlit version; a run without a file reads nothing.
Reads == IF uploaded.present THEN BOOLEAN ELSE {FALSE}

\* The user puts a file into the uploader.
Upload ==
    /\ phase = "idle"
    /\ \E U \in SUBSET Urls : BeginRun(session_state, File(U), TRUE, "none", widgets, "upload")

\* The user removes the file from the uploader.
RemoveFile ==
    /\ phase = "idle"
    /\ uploaded.present
    /\ BeginRun(session_state, NoFile, FALSE, "none", widgets, "remove")

\* 'Clear All & Start Over'  (src/app.py:316-321)
ClearAll ==
    /\ phase = "idle"
    /\ \E read \in Reads : BeginRun(Cleared(session_state), uploaded, read, "none", widgets, "clear")

\* The user clicks a button that the last run has rendered.
PressButton ==
    /\ phase = "idle"
    /\ \E b \in rendered, read \in Reads :
          BeginRun(session_state, uploaded, read, b, widgets, "button")

\* The user changes the naming pattern or the custom prefix  (src/app.py:718-733)
ChangeSettings ==
    /\ phase = "idle"
    /\ \E w \in WidgetValues \ {widgets}, read \in Reads :
          BeginRun(session_state, uploaded, read, "none", w, "settings")

\* Any other interaction: a run without a clicked button.
Rerun ==
    /\ phase = "idle"
    /\ \E read \in Reads : BeginRun(session_state, uploaded, read, "none", widgets, "rerun")

\* Variant: the first URL that fails ends the loop.
NextIdx_break_on_failure(i, n, result) == IF result THEN i + 1 ELSE n

\* The next iteration of 'for idx, url in enumerate(urls_list)' after URL i + 1 of n,
\* whatever get_image_from_url returned  (src/app.py:387, 455)
NextIdx(i, n, result) == i + 1

\* One iteration of a load loop (src/app.py:387-398, 455-464).  get_image_from_url
\* returns a pair or, after any exception, None (src/app.py:65-132).
LoadStep ==
    /\ phase \in {"upload_loop", "process_loop"}
    /\ idx < Len(set_order)
    /\ \E result \in BOOLEAN :
          /\ session_state' =
                IF result
                THEN [session_state EXCEPT !.images_data = DictSet(@, set_order[idx + 1])]
                ELSE [session_state EXCEPT !.failed_downloads = DictSet(@, set_order[idx + 1])]
          /\ idx' = NextIdx(idx, Len(set_order), result)
    /\ UNCHANGED <<set_order, uploaded, widgets, phase, pressed, rendered,
                   zip_names, json_names, example_result, run_start, otherVars>>

\* The load loop has finished.
EndLoop ==
    /\ phase \in {"upload_loop", "process_loop"}
    /\ idx >= Len(set_order)
    /\ phase' = (IF phase = "upload_loop" THEN "tab2" ELSE "tab3")
    /\ UNCHANGED <<session_state, set_order, uploaded, widgets, pressed, idx, rendered,
                   zip_names, json_names, example_result, run_start, otherVars>>

\* The Process tab up to its load loop, or with 'Generate Placeholders'
\* (src/app.py:441-453, 474-517).
ProcessTab ==
    /\ phase = "tab2"
    /\ IF session_state.image_urls # {} /\ session_state.images_data = <<>>
       THEN /\ session_state' = [session_state EXCEPT !.images_data = <<>>,
                                                      !.failed_downloads = <<>>]
            /\ idx' = 0
            /\ phase' = "process_loop"
            /\ UNCHANGED rendered
       ELSE IF session_state.image_urls # {}
       THEN /\ rendered' = rendered \cup {"generate"}
            /\ session_state' =
                  IF pressed = "generate"
                  THEN [session_state EXCEPT !.placeholders_data = session_state.images_data]
                  ELSE session_state
            /\ phase' = "tab3"
            /\ UNCHANGED idx
       ELSE /\ phase' = "tab3"
            /\ UNCHANGED <<session_state, idx, rendered>>
    /\ zip_names' = (IF session_state' = session_state THEN zip_names ELSE <<>>)
    /\ json_names' = (IF session_state' = session_state THEN json_names ELSE <<>>)
    /\ UNCHANGED <<set_order, uploaded, widgets, pressed, example_result, run_start,
                   otherVars>>

\* 'Download All Placeholders (ZIP)': the (url, name) of files[name] = ... in the
\* order of the loop  (src/app.py:549-557)
ZipPlaceholders(s) ==
    [i \in 1..Len(s.placeholders_data) |->
        <<s.placeholders_data[i],
          generate_placeholder_filename(get_filename_from_url(s.placeholders_data[i], 0),
                                        s.naming_pattern, s.custom_prefix, i)>>]

\* 'Generate Updated JSON': the (url, name) of the replacements in the order of
\* the loop, order being the iteration order of image_urls  (src/app.py:786-795)
UpdatedJson(s, order) ==
    [i \in 1..Len(order) |->
        <<order[i],
          generate_placeholder_filename(get_filename_from_url(order[i], 0),
                                        s.naming_pattern, s.custom_prefix, i)>>]

\* The Download tab, the Settings tab and the JSON Updater
\* (src/app.py:519-565, 703-812), to the end of the run.
FinishRun ==
    /\ phase = "tab3"
    /\ LET s       == session_state
           batch   == s.images_data # <<>> /\ s.placeholders_data # <<>>
           stored  == [s EXCEPT !.naming_pattern = widgets.naming_pattern,
                                !.custom_prefix = widgets.custom_prefix]
           updater == stored.placeholders_data # <<>>
       IN  /\ zip_names' =
                  IF batch /\ pressed = "zip_placeholders" THEN ZipPlaceholders(s)
                  ELSE IF stored = s THEN zip_names ELSE <<>>
           /\ session_state' = stored
           /\ json_names' =
                  IF updater /\ pressed = "update_json" THEN UpdatedJson(stored, set_order)
                  ELSE IF stored = s THEN json_names ELSE <<>>
           /\ rendered' = rendered \cup (IF batch THEN {"zip_placeholders"} ELSE {})
                                   \cup (IF updater THEN {"update_json"} ELSE {})
    /\ example_result' = ExampleResult(widgets.naming_pattern, widgets.custom_prefix)
    /\ run_start' = NoRun
    /\ phase' = "idle"
    /\ pressed' = "none"
    /\ idx' = 0
    /\ UNCHANGED <<set_order, uploaded, widgets, otherVars>>

NextSession ==
    \/ Upload
    \/ RemoveFile
    \/ ClearAll
    \/ PressButton
    \/ ChangeSettings
    \/ Rerun
    \/ LoadStep
    \/ EndLoop
    \/ ProcessTab
    \/ FinishRun

SpecSession == InitSession /\ [][NextSession]_vars

(***************************************************************************)
(* main, 'Individual Downloads' of the Download tab (src/app.py:566-699).  *)
(***************************************************************************)
MaxGridUrls == 6    \* length of the displayed URL list

\* range(0, len(urls_list), 2 if show_comparison else 4)  (src/app.py:576)
RowStep(show_comparison) == IF show_comparison THEN 2 ELSE 4

\* The index argument i*4+j+1 of generate_placeholder_filename (src/app.py:631, 689)
DownloadIndex(i, j) == i * 4 + j + 1

\* The displayed list urls_list holds Url(1) .. Url(n) in this order; the URLs at
\* the 0-based positions with_placeholder have an image and a placeholder.
GridInputs ==
    UNION {{[kind |-> "grid", n |-> n, show_comparison |-> sc, with_placeholder |-> P,
             naming_pattern |-> np] :
                sc \in BOOLEAN, P \in SUBSET (0..(n - 1)), np \in NamingPatterns} :
           n \in 1..MaxGridUrls}

InitGrid ==
    /\ pc = "input"
    /\ grid \in GridInputs
    /\ row_i = 0
    /\ download_buttons = {}
    /\ ExtractIdle /\ NamingIdle /\ UrlIdle /\ FilenameIdle /\ FormatIdle /\ SessionIdle
    /\ ZipIdle

\* The download button of the URL in column j of the row that starts at i:
\* its position i + j in urls_list, the index passed and the file name.
DownloadButton(i, j) ==
    [position  |-> i + j,
     index     |-> DownloadIndex(i, j),
     file_name |-> generate_placeholder_filename(
                       get_filename_from_url(Url(i + j + 1), 0), grid.naming_pattern,
                       DefaultWidgets.custom_prefix, DownloadIndex(i, j))]

\* One iteration of the row loop: the columns j of the row that starts at i = row_i
\* (src/app.py:576-699, the same in both views).
RenderRow ==
    /\ grid.kind = "grid"
    /\ row_i < grid.n
    /\ download_buttons' = download_buttons \cup
          {DownloadButton(row_i, j) :
              j \in {c \in 0..(RowStep(grid.show_comparison) - 1) :
                        row_i + c < grid.n /\ (row_i + c) \in grid.with_placeholder}}
    /\ row_i' = row_i + RowStep(grid.show_comparison)
    /\ pc' = (IF row_i' < grid.n THEN "input" ELSE "done")
    /\ UNCHANGED <<grid, extractVars, namingVars, urlVars, filenameVars, formatVars,
                   sessionVars, zipVars>>

NextGrid == RenderRow

SpecGrid == InitGrid /\ [][NextGrid]_vars

(***************************************************************************)
(* main, 'Download All Originals (ZIP)' of the Download tab                *)
(* (src/app.py:531-540) with create_zip_file (src/app.py:278-284).         *)
(***************************************************************************)
MaxZipUrls == 3    \* keys of images_data

\* 'https://h<k>.com/': the path ends in '/', get_filename_from_url falls back.
NoNameUrl(k) ==
    <<"h", "t", "t", "p", "s", ":", "/", "/", "h">> \o Decimal(k) \o <<".", "c", "o", "m", "/">>

\* URLs of loaded images: Url(1) and Url(3) end in 'a.png', Url(2) in 'b.jpg',
\* the last two have no file name.
ZipUrls == {Url(1), Url(2), Url(3), NoNameUrl(4), NoNameUrl(5)}

\* Values of hash(url); the last two differ by the modulus of the fallback name.
ZipHashes == {0, HashStep, HashStep + HashModulus}

\* files[name] = value: a new key goes to the end, a present key keeps its
\* place and gets the new value.
DictPut(dict, name, value) ==
    IF \E i \in 1..Len(dict) : dict[i].name = name
    THEN [i \in 1..Len(dict) |->
             IF dict[i].name = name THEN [name |-> name, value |-> value] ELSE dict[i]]
    ELSE Append(dict, [name |-> name, value |-> value])

\* images_data holds between one and MaxZipUrls different URLs (the batch
\* downloads are shown for a non-empty images_data only, src/app.py:521), every
\* URL with a hash of its own.
InitZip ==
    /\ pc = "input"
    /\ \E n \in 1..MaxZipUrls :
          /\ zip_images \in {o \in [1..n -> ZipUrls] :
                                \A i, j \in 1..n : i # j => o[i] # o[j]}
          /\ zip_hash \in {h \in [Range(zip_images) -> ZipHashes] :
                              \A u, v \in Range(zip_images) : u # v => h[u] # h[v]}
    /\ zip_pos = 0
    /\ files = <<>>
    /\ zip_file = <<>>
    /\ ExtractIdle /\ NamingIdle /\ UrlIdle /\ FilenameIdle /\ FormatIdle /\ SessionIdle
    /\ GridIdle

\* One iteration of 'for url, img_data in st.session_state.images_data.items()'
\* (src/app.py:534-538); the value image_to_bytes returns is stood for by the URL.
ZipOriginal ==
    /\ pc = "input"
    /\ zip_pos < Len(zip_images)
    /\ LET u == zip_images[zip_pos + 1]
       IN  files' = DictPut(files, get_filename_from_url(u, zip_hash[u]), u)
    /\ zip_pos' = zip_pos + 1
    /\ UNCHANGED <<pc, zip_images, zip_hash, zip_file, extractVars, namingVars, urlVars,
                   filenameVars, formatVars, sessionVars, gridVars>>

\* create_zip_file(files): one writestr per item of files  (src/app.py:278-284, 540)
create_zip_file(dict) == [i \in 1..Len(dict) |-> dict[i].name]

CreateZipFile ==
    /\ pc = "input"
    /\ zip_images # <<>>
    /\ zip_pos = Len(zip_images)
    /\ zip_file' = create_zip_file(files)
    /\ pc' = "done"
    /\ UNCHANGED <<zip_images, zip_hash, zip_pos, files, extractVars, namingVars, urlVars,
                   filenameVars, formatVars, sessionVars, gridVars>>

NextZip ==
    \/ ZipOriginal
    \/ CreateZipFile

SpecZip == InitZip /\ [][NextZip]_vars

(***************************************************************************)
(* Properties of extract_image_urls, checked under SpecExtract.            *)
(***************************************************************************)
HTTP  == <<"h", "t", "t", "p">>
HTTPS == <<"h", "t", "t", "p", "s">>

\* The text embeds an http or https URL that ends in a recognized image
\* extension, written in any letter case.
EmbedsImageUrl ==
    /\ embedded.scheme \in {HTTP, HTTPS}
    /\ LowerStr(embedded.ext) \in ClaimedExtensions

\* Both the scheme separator and the path are written in the given style.
WrittenIn(style) == embedded.s1 = style /\ embedded.s2 = style

\* The URL is closed by a double quote in the text.
Quoted == embedded.wrap \in {"quoted", "json"}

\* C1: a text with one quoted http(s) URL written with escaped slashes and
\* ending in a recognized image extension gives exactly the set of that URL
\* with every backslash-slash written as a slash.
C1_EscapedUrlExtracted ==
    (pc = "done" /\ EmbedsImageUrl /\ WrittenIn("escaped") /\ Quoted)
        => clean_urls = {UrlOf(embedded)}

C1_Witness ==
    /\ pc = "done"
    /\ json_content =
        <<"\"", "h", "t", "t", "p", "s", ":", "\\", "/", "\\", "/", "x", ".",
          "c", "o", "m", "\\", "/", "a", ".", "p", "n", "g", "\"">>
    /\ clean_urls =
        {<<"h", "t", "t", "p", "s", ":", "/", "/", "x", ".", "c", "o", "m", "/", "a", ".", "p", "n", "g">>}

\* C2: an unescaped http(s) URL ending in a recognized image extension and
\* delimited by quotes or whitespace is an element of the result.
C2_DirectUrlExtracted ==
    (pc = "done" /\ EmbedsImageUrl /\ WrittenIn("plain")
        /\ embedded.wrap \in {"quoted", "json", "spaced"})
        => UrlOf(embedded) \in clean_urls

\* C3: for each of the thirteen extensions e, a URL that ends in '.e' right
\* before the closing quote is recognized, and the returned URL ends in the
\* full '.e'.
C3_ExtensionKept ==
    (pc = "done" /\ embedded.scheme \in {HTTP, HTTPS}
        /\ embedded.ext \in ClaimedExtensions /\ Quoted
        /\ (WrittenIn("plain") \/ WrittenIn("escaped")))
        => \E u \in clean_urls : EndsWith(u, <<".">> \o embedded.ext)

ScenarioDoubleEncoded ==
    <<"{", "\"", "b", "g", "\"", ":", "\"", "h", "t", "t", "p", "s", ":",
      "\\", "\\", "/", "\\", "\\", "/", "c", "d", "n", ".", "t", "e", "s",
      "t", "\\", "\\", "/", "i", "m", "g", "\\", "\\", "/", "a", ".", "J",
      "P", "G", "\"", ",", "\"", "o", "t", "h", "e", "r", "\"", ":", "\"",
      "n", "o", " ", "u", "r", "l", " ", "h", "e", "r", "e", "\"", "}">>

ScenarioEscaped ==
    <<"{", "\"", "b", "g", "\"", ":", "\"", "h", "t", "t", "p", "s", ":",
      "\\", "/", "\\", "/", "c", "d", "n", ".", "t", "e", "s", "t", "\\",
      "/", "i", "m", "g", "\\", "/", "a", ".", "J", "P", "G", "\"", ",",
      "\"", "o", "t", "h", "e", "r", "\"", ":", "\"", "n", "o", " ", "u",
      "r", "l", " ", "h", "e", "r", "e", "\"", "}">>

ScenarioUrl ==
    <<"h", "t", "t", "p", "s", ":", "/", "/", "c", "d", "n", ".", "t", "e",
      "s", "t", "/", "i", "m", "g", "/", "a", ".", "J", "P", "G">>

\* C4 as stated: a URL written with two backslashes before each slash, as in
\* the scenario text, is extracted and the result is exactly that URL.
C4_DoubleEncodedExtracted ==
    (pc = "done" /\ EmbedsImageUrl /\ WrittenIn("double") /\ Quoted)
        => clean_urls = {UrlOf(embedded)}

\* C4 amended: a URL written with two backslashes before each slash is not
\* extracted, the scenario text gives the empty set; the scenario text
\* written with one backslash before each slash gives exactly
\* {"https://cdn.test/img/a.JPG"}.
C4_DoubleEncodedNotExtracted ==
    /\ (pc = "done" /\ EmbedsImageUrl /\ WrittenIn("double") /\ Quoted)
          => clean_urls = {}
    /\ (pc = "done" /\ json_content = ScenarioDoubleEncoded) => clean_urls = {}
    /\ (pc = "done" /\ json_content = ScenarioEscaped) => clean_urls = {ScenarioUrl}

C4_Witness ==
    /\ pc = "done"
    /\ json_content = ScenarioDoubleEncoded
    /\ clean_urls = {}

\* An extension of the thirteen, after a '.', ends at position j of t.
ImageExtensionEndsAt(t, j) ==
    \E e \in ClaimedExtensions :
        /\ j - Len(e) >= 1
        /\ t[j - Len(e)] = "."
        /\ OccursAtIgnoreCase(t, j - Len(e) + 1, e)

\* http:// or https://, with plain or escaped slashes, starts at position i.
UrlStartsAt(t, i) ==
    \E scheme \in {HTTP, HTTPS}, sep \in {<<":", SL, SL>>, <<":", BS, SL, BS, SL>>} :
        OccursAtIgnoreCase(t, i, scheme \o sep)

\* Some part of t runs from the start of an http(s) URL to the end of a
\* recognized image extension.
ContainsImageUrl(t) ==
    \E i \in 1..Len(t) :
        UrlStartsAt(t, i) /\ \E j \in (i + 1)..Len(t) : ImageExtensionEndsAt(t, j)

\* C5: a text that contains no http(s) URL ending in a recognized image
\* extension, valid JSON or not, gives the empty set.
C5_NoUrlGivesEmptySet ==
    (pc = "done" /\ ~ContainsImageUrl(json_content)) => clean_urls = {}

C5_Witness ==
    /\ pc = "done"
    /\ ~ContainsImageUrl(json_content)
    /\ embedded.scheme = HTTPS
    /\ embedded.ext = <<"t", "x", "t">>
    /\ WrittenIn("escaped")
    /\ embedded.wrap = "bare"
    /\ clean_urls = {}

\* u is 'http://' or 'https://', a nonempty run, a '.', a nonempty run.
AbsoluteUrlShape(u) ==
    \E start \in {HTTP \o <<":", SL, SL>>, HTTPS \o <<":", SL, SL>>} :
        /\ StartsWith(u, start)
        /\ \E j \in (Len(start) + 2)..(Len(u) - 1) : u[j] = "."

\* C6 as stated: every returned element has the absolute-URL shape and
\* contains no backslash-slash.
C6_AbsoluteUrlsWithoutEscapes ==
    \A u \in clean_urls : AbsoluteUrlShape(u) /\ ~Contains(u, <<BS, SL>>)

\* C6 amended: every returned element has the absolute-URL shape, and it
\* contains a backslash-slash only when the text has a slash with two
\* backslashes before it.
C6_AbsoluteUrls ==
    \A u \in clean_urls :
        /\ AbsoluteUrlShape(u)
        /\ Contains(u, <<BS, SL>>) => Contains(json_content, <<BS, BS, SL>>)

C6_Witness ==
    /\ pc = "done"
    /\ json_content =
        <<"\"", "h", "t", "t", "p", "s", ":", "\\", "/", "\\", "/", "x", ".",
          "c", "o", "m", "\\", "\\", "/", "a", ".", "p", "n", "g", "\"">>
    /\ clean_urls =
        {<<"h", "t", "t", "p", "s", ":", "/", "/", "x", ".", "c", "o", "m",
          "\\", "/", "a", ".", "p", "n", "g">>}

\* C7: a URL whose extension is written in upper or mixed case is
\* extracted, with the extension in the case it has in the text.
C7_UpperCaseExtensionExtracted ==
    (pc = "done" /\ EmbedsImageUrl /\ embedded.ext \notin ClaimedExtensions
        /\ (WrittenIn("plain") \/ WrittenIn("escaped")))
        => UrlOf(embedded) \in clean_urls

(***************************************************************************)
(* Properties of generate_placeholder_filename, checked under SpecNaming.  *)
(***************************************************************************)
DotPng == <<".", "p", "n", "g">>

\* The part of f before its last '.', all of f when it has none.
NameOf(f) ==
    IF \E i \in 1..Len(f) : f[i] = "."
    THEN SubSeq(f, 1, (CHOOSE i \in 1..Len(f) :
                          f[i] = "." /\ \A j \in (i + 1)..Len(f) : f[j] # ".") - 1)
    ELSE f

\* p without its trailing underscores.
WithoutTrailingUnderscores(p) ==
    SubSeq(p, 1, CHOOSE n \in 0..Len(p) :
                    /\ n = 0 \/ p[n] # "_"
                    /\ \A j \in (n + 1)..Len(p) : p[j] = "_")

RECURSIVE Pow10(_)
Pow10(k) == IF k = 0 THEN 1 ELSE 10 * Pow10(k - 1)

\* n >= 0 in decimal, with at least three digits.
ThreeDigits(n) ==
    LET width == CHOOSE w \in 3..(n + 3) :
                    /\ n < Pow10(w)
                    /\ w = 3 \/ n >= Pow10(w - 1)
    IN  [k \in 1..width |-> Digits[((n \div Pow10(width - k)) % 10) + 1]]

PlainPatterns == {"original_filename", "prefix_original_filename"}

\* C8 as stated: under 'original_filename' and 'prefix_original_filename'
\* an empty prefix gives '<name>.png' and a non-empty prefix P gives
\* 'P_<original_filename>'.
C8_PrefixPrepended ==
    (pc = "done" /\ pattern \in PlainPatterns)
        => filename = IF prefix = <<>> THEN NameOf(original_filename) \o DotPng
                      ELSE prefix \o <<"_">> \o original_filename

\* C8 amended: under 'original_filename' and 'prefix_original_filename',
\* with P the prefix without its trailing underscores, an empty P gives
\* '<name>.png' and a non-empty P gives 'P_<original_filename>'.
C8_StrippedPrefixPrepended ==
    (pc = "done" /\ pattern \in PlainPatterns)
        => LET P == WithoutTrailingUnderscores(prefix)
           IN  filename = IF P = <<>> THEN NameOf(original_filename) \o DotPng
                          ELSE P \o <<"_">> \o original_filename

C8_Witness ==
    /\ pc = "done"
    /\ pattern = "original_filename"
    /\ original_filename = <<"p", "h", "o", "t", "o", ".", "j", "p", "g">>
    /\ prefix = <<"p", "h", "_">>
    /\ filename = <<"p", "h", "_", "p", "h", "o", "t", "o", ".", "j", "p", "g">>

\* C9 as stated: every returned filename ends in '.png'.
C9_AlwaysPng == pc = "done" => EndsWith(filename, DotPng)

\* C9 amended: the returned filename ends in '.png' when the prefix without
\* its trailing underscores is empty, or the pattern is
\* 'original_filename_suffix' or none of the four policies; otherwise it
\* ends with the original filename and so keeps that file's extension.
C9_PngUnlessPrefixed ==
    pc = "done" =>
        IF WithoutTrailingUnderscores(prefix) = <<>>
              \/ pattern \notin (PlainPatterns \cup {"prefix_index_original_filename"})
        THEN EndsWith(filename, DotPng)
        ELSE EndsWith(filename, <<"_">> \o original_filename)

C9_Witness ==
    /\ pc = "done"
    /\ pattern = "original_filename_suffix"
    /\ original_filename = <<"p", "h", "o", "t", "o", ".", "j", "p", "g">>
    /\ prefix = <<"p", "h">>
    /\ EndsWith(filename, DotPng)
    /\ ~EndsWith(original_filename, DotPng)

\* C10 as stated: under 'prefix_index_original_filename' the index is in
\* decimal with at least three digits; an empty prefix gives
\* '<idx>_<name>.png' and a non-empty prefix P gives
\* 'P_<idx>_<original_filename>'.
C10_IndexedName ==
    (pc = "done" /\ pattern = "prefix_index_original_filename")
        => filename =
              IF prefix = <<>>
              THEN ThreeDigits(index) \o <<"_">> \o NameOf(original_filename) \o DotPng
              ELSE prefix \o <<"_">> \o ThreeDigits(index) \o <<"_">> \o original_filename

\* C10 amended: the same, with P the prefix without its trailing
\* underscores.
C10_IndexedNameStrippedPrefix ==
    (pc = "done" /\ pattern = "prefix_index_original_filename")
        => LET P == WithoutTrailingUnderscores(prefix)
           IN  filename =
                  IF P = <<>>
                  THEN ThreeDigits(index) \o <<"_">> \o NameOf(original_filename) \o DotPng
                  ELSE P \o <<"_">> \o ThreeDigits(index) \o <<"_">> \o original_filename

C10_Witness ==
    /\ pc = "done"
    /\ pattern = "prefix_index_original_filename"
    /\ original_filename = <<"p", "h", "o", "t", "o", ".", "j", "p", "g">>
    /\ prefix = <<"p", "h", "_">>
    /\ index = 1000
    /\ filename = <<"p", "h", "_", "1", "0", "0", "0", "_", "p", "h", "o", "t", "o", ".", "j", "p", "g">>

Placeholder == <<"p", "l", "a", "c", "e", "h", "o", "l", "d", "e", "r">>

\* C11 as stated: under 'original_filename_suffix' an empty prefix gives
\* '<name>_placeholder.png' and a non-empty prefix P gives '<name>_P.png'.
C11_SuffixName ==
    (pc = "done" /\ pattern = "original_filename_suffix")
        => filename = NameOf(original_filename) \o <<"_">>
                        \o (IF prefix = <<>> THEN Placeholder ELSE prefix) \o DotPng

\* C11 amended: the same, with P the prefix without its trailing
\* underscores.
C11_SuffixNameStrippedPrefix ==
    (pc = "done" /\ pattern = "original_filename_suffix")
        => LET P == WithoutTrailingUnderscores(prefix)
           IN  filename = NameOf(original_filename) \o <<"_">>
                            \o (IF P = <<>> THEN Placeholder ELSE P) \o DotPng

C11_Witness ==
    /\ pc = "done"
    /\ pattern = "original_filename_suffix"
    /\ original_filename = <<"p", "h", "o", "t", "o", ".", "j", "p", "g">>
    /\ prefix = <<"p", "h", "_">>
    /\ filename = <<"p", "h", "o", "t", "o", "_", "p", "h", ".", "p", "n", "g">>

\* C12: a pattern outside the four policies gives 'placeholder_<name>.png',
\* a value in which neither the prefix nor the index occurs.
C12_UnknownPatternFallback ==
    (pc = "done" /\ pattern \notin NamingPatterns)
        => filename = Placeholder \o <<"_">> \o NameOf(original_filename) \o DotPng

C12_Witness ==
    /\ pc = "done"
    /\ pattern = "unknown_pattern"
    /\ original_filename = <<"p", "h", "o", "t", "o", ".", "j", "p", "g">>
    /\ prefix = <<"p", "h">>
    /\ index = 7
    /\ filename = <<"p", "l", "a", "c", "e", "h", "o", "l", "d", "e", "r", "_", "p", "h", "o", "t", "o", ".", "p", "n", "g">>

\* C13: trailing underscores of the prefix do not count: the result for a
\* prefix is the result for that prefix without its trailing underscores,
\* and a prefix of underscores only gives the result of the empty prefix.
C13_TrailingUnderscoresStripped ==
    pc = "done" =>
        /\ filename = generate_placeholder_filename(
                          original_filename, pattern,
                          WithoutTrailingUnderscores(prefix), index)
        /\ (\A k \in 1..Len(prefix) : prefix[k] = "_")
              => filename = generate_placeholder_filename(
                                original_filename, pattern, <<>>, index)

C13_Witness ==
    /\ pc = "done"
    /\ pattern = "prefix_original_filename"
    /\ original_filename = <<"p", "h", "o", "t", "o", ".", "j", "p", "g">>
    /\ prefix = <<"p", "h", "_", "_">>
    /\ filename = <<"p", "h", "_", "p", "h", "o", "t", "o", ".", "j", "p", "g">>

(***************************************************************************)
(* Properties of get_filename_from_url, checked under SpecFilename.        *)
(***************************************************************************)
\* The final segment of the path the URL was written with.
FinalSegment == IF url_parts.has_path THEN url_parts.segment ELSE <<>>

\* urlparse rejects the URL: its host opens a bracket that is never closed.
ParseFails == HasChar(url_parts.host, "[") /\ ~HasChar(url_parts.host, "]")

\* C14: when the URL parses and the final segment of its path is non-empty
\* and contains a '.', get_filename_from_url returns exactly that segment,
\* whatever parameters, query string and fragment follow it; and no returned
\* name contains '/'.
C14_FinalPathSegment ==
    calls > 0 =>
        /\ (~ParseFails /\ FinalSegment # <<>> /\ HasChar(FinalSegment, "."))
              => url_filename = FinalSegment
        /\ ~HasChar(url_filename, "/")

\* 'https://x.com/img/b.png?u=a/b.c#f/g.h' gives 'b.png'.
C14_Witness ==
    /\ calls > 0
    /\ url = <<"h", "t", "t", "p", "s", ":", "/", "/", "x", ".", "c", "o", "m", "/", "i", "m", "g", "/", "b", ".", "p", "n", "g", "?", "u", "=", "a", "/", "b", ".", "c", "#", "f", "/", "g", ".", "h">>
    /\ url_filename = <<"b", ".", "p", "n", "g">>

\* n >= 0 in decimal without padding.
DecimalDigits(n) ==
    LET width == CHOOSE w \in 1..10 :
                    /\ n < Pow10(w)
                    /\ w = 1 \/ n >= Pow10(w - 1)
    IN  [k \in 1..width |-> Digits[((n \div Pow10(width - k)) % 10) + 1]]

\* The residue of hash(url) modulo 10000 that lies in 0..9999.
ReducedHash ==
    CHOOSE n \in {url_hash + q * HashModulus :
                     q \in (-MaxHashSteps - 1)..(MaxHashSteps + 1)} :
        0 <= n /\ n < HashModulus

UsesFallback == ParseFails \/ FinalSegment = <<>> \/ ~HasChar(FinalSegment, ".")

\* C15: when the final path segment is empty or has no '.', or the URL does
\* not parse, the result is 'image_<N>.jpg' where N is the residue of
\* hash(url) modulo 10000 in 0..9999, also for a negative hash, and a second
\* call with the same URL returns the same name as the first.
C15_FallbackName ==
    (calls > 0 /\ UsesFallback) =>
        /\ url_filename = <<"i", "m", "a", "g", "e", "_">> \o DecimalDigits(ReducedHash) \o <<".", "j", "p", "g">>
        /\ calls > 1 => previous_filename = url_filename

\* 'https://x.com/' with hash -4999, called twice, gives 'image_5001.jpg' both times.
C15_Witness ==
    /\ calls > 1
    /\ url = <<"h", "t", "t", "p", "s", ":", "/", "/", "x", ".", "c", "o", "m", "/">>
    /\ url_hash < 0
    /\ url_filename = <<"i", "m", "a", "g", "e", "_", "5", "0", "0", "1", ".", "j", "p", "g">>
    /\ previous_filename = <<"i", "m", "a", "g", "e", "_", "5", "0", "0", "1", ".", "j", "p", "g">>

(***************************************************************************)
(* Properties of get_image_format_from_image, checked under SpecFormat.    *)
(***************************************************************************)
\* The suffix table of the specification: trailing extension to format tag.
SuffixTable ==
    {<<<<".", "p", "n", "g">>, "PNG">>, <<<<".", "g", "i", "f">>, "GIF">>, <<<<".", "b", "m", "p">>, "BMP">>, <<<<".", "w", "e", "b", "p">>, "WEBP">>,
     <<<<".", "t", "i", "f", "f">>, "TIFF">>, <<<<".", "t", "i", "f">>, "TIFF">>, <<<<".", "s", "v", "g">>, "SVG">>}

TableExtensions == {row[1] : row \in SuffixTable}

\* The format resolver has returned for an image without a probed format.
ResolvedFromUrl == pc = "done" /\ url_parts.kind = "format_url" /\ img_format = ""

\* C16: without a probed format, a URL whose trailing extension, in any
\* letter case, is in the suffix table resolves to the table's tag for it.
C16_SuffixTable ==
    ResolvedFromUrl =>
        \A row \in SuffixTable : url_parts.ext = row[1] => image_format = row[2]

\* C17: without a probed format, a URL whose trailing extension is absent or
\* not in the suffix table resolves to JPEG, also when a table extension
\* occurs earlier in the URL.
C17_DefaultJpeg ==
    (ResolvedFromUrl /\ url_parts.ext \notin TableExtensions) => image_format = "JPEG"

(***************************************************************************)
(* Properties of the session, checked under SpecSession.                   *)
(***************************************************************************)
Loaded == Range(session_state.images_data)
Failed == Range(session_state.failed_downloads)

\* A load loop has run to its end and the run has not yet gone on.
LoopFinished == phase \in {"upload_loop", "process_loop"} /\ idx >= Len(set_order)

\* C18: when a load loop over the extracted URLs has finished, every URL of
\* image_urls is a key of exactly one of images_data and failed_downloads,
\* and the loop has visited all of them, however many of them failed: a
\* failure never ends the loop early.
C18_BatchNeverAborts ==
    LoopFinished =>
        /\ \A u \in session_state.image_urls : (u \in Loaded) # (u \in Failed)
        /\ idx = Cardinality(session_state.image_urls)
        /\ Loaded \cup Failed = session_state.image_urls

\* The first URL of the loop failed and a later one was loaded.
C18_Witness ==
    /\ LoopFinished
    /\ Len(set_order) >= 2
    /\ set_order[1] \in Failed
    /\ Loaded # {}

\* C19: a URL is stored in the placeholder ZIP under the same name that the
\* updated JSON writes for it, for every naming pattern and whatever URLs
\* were loaded and failed.
C19_SameNameInZipAndJson ==
    \A i \in 1..Len(zip_names), j \in 1..Len(json_names) :
        zip_names[i][1] = json_names[j][1] => zip_names[i][2] = json_names[j][2]

(***************************************************************************)
(* Properties of the individual downloads, checked under SpecGrid.         *)
(***************************************************************************)
\* C20: the placeholder download button of the URL at 0-based position k of
\* the displayed list is given index k + 1, in both views, and so its file
\* name is the one generate_placeholder_filename gives for index k + 1.
C20_IndexIsPosition ==
    \A b \in download_buttons :
        /\ b.index = b.position + 1
        /\ b.file_name = generate_placeholder_filename(
                             get_filename_from_url(Url(b.position + 1), 0),
                             grid.naming_pattern, DefaultWidgets.custom_prefix,
                             b.position + 1)


(***************************************************************************)
(* Properties of the Settings preview, checked under SpecSession.          *)
(***************************************************************************)
\* What generate_placeholder_filename returns for the example of the preview
\* under the widget values of the last run.
GeneratedExample ==
    generate_placeholder_filename(example_filename, widgets.naming_pattern,
                                  widgets.custom_prefix, 1)

\* C21: at the end of every run the example result shown by the Settings tab for
\* '69555-author.webp' equals generate_placeholder_filename('69555-author.webp',
\* naming_pattern, custom_prefix, 1), for every naming pattern and every custom
\* prefix (empty, with and without a trailing underscore).
C21_PreviewIsGenerated ==
    phase = "idle" => example_result = GeneratedExample

\* C21, the cases in which preview and function do agree: a prefix that ends in
\* one underscore under a pattern other than 'original_filename_suffix'.
C21_PreviewAgrees ==
    /\ phase = "idle"
    /\ widgets.custom_prefix # <<>>
    /\ widgets.custom_prefix[Len(widgets.custom_prefix)] = "_"
    /\ widgets.naming_pattern # "original_filename_suffix"
    => example_result = GeneratedExample


(***************************************************************************)
(* Properties of the session across runs of main(), checked under          *)
(* SpecSession.                                                            *)
(***************************************************************************)
\* The run in progress was begun by an interaction other than an upload or
\* 'Clear All', read the text of the file that was already in the uploader and
\* found URLs in it; the session held placeholders before it and 'Generate
\* Placeholders' was not clicked.
RereadRun ==
    /\ run_start.kind = "run"
    /\ run_start.by \in {"button", "settings", "rerun"}
    /\ run_start.read
    /\ uploaded.urls # {}
    /\ run_start.placeholders_data # <<>>
    /\ pressed # "generate"

\* C22: a run of main() that reads the same uploaded file again and finds URLs,
\* without 'Clear All', reaches the Download tab with the placeholders_data the
\* session held before the run.
C22_RereadKeepsPlaceholders ==
    phase = "tab3" /\ RereadRun
    => session_state.placeholders_data = run_start.placeholders_data

\* C22, what the code does: such a run reaches the Download tab with an empty
\* placeholders_data.
C22_RereadDropsPlaceholders ==
    phase = "tab3" /\ RereadRun => session_state.placeholders_data = <<>>

\* C22: a run that did not read the file reaches the Download tab with the
\* placeholders it began with.
C22_UnreadKeepsPlaceholders ==
    /\ phase = "tab3"
    /\ run_start.kind = "run"
    /\ run_start.by \in {"button", "settings", "rerun"}
    /\ ~run_start.read
    /\ pressed # "generate"
    => session_state.placeholders_data = run_start.placeholders_data


\* C23: at the end of every run of main() every URL that is a key of
\* placeholders_data is a key of images_data as well.
C23_PlaceholdersHaveImages ==
    phase = "idle"
    => Range(session_state.placeholders_data) \subseteq Range(session_state.images_data)

\* C23, where the code keeps the invariant: at the end of every run that leaves
\* URLs in image_urls.
C23_PlaceholdersHaveImagesWithUrls ==
    phase = "idle" /\ session_state.image_urls # {}
    => Range(session_state.placeholders_data) \subseteq Range(session_state.images_data)


(***************************************************************************)
(* Properties of 'Download All Originals (ZIP)', checked under SpecZip.    *)
(***************************************************************************)
\* The file name of every key of images_data.
ZipNameOf(u) == get_filename_from_url(u, zip_hash[u])

ZipNames == {ZipNameOf(u) : u \in Range(zip_images)}

\* C24: the files mapping passed to create_zip_file has as many entries as
\* images_data has keys, also when two URLs share the final path segment or the
\* fallback name.
C24_OneEntryPerImage ==
    pc = "done" /\ zip_images # <<>> => Len(files) = Len(zip_images)

\* C24, what the code does: one entry per different file name, with the image
\* of the last URL that has this name.
C24_OneEntryPerName ==
    pc = "done" /\ zip_images # <<>>
    => /\ Len(files) = Cardinality(ZipNames)
       /\ zip_file = [i \in 1..Len(files) |-> files[i].name]
       /\ \A i \in 1..Len(files) :
             files[i].value =
                zip_images[Max({k \in 1..Len(zip_images) :
                                   ZipNameOf(zip_images[k]) = files[i].name})]

====
